---- MODULE Spec2Model ----
(***************************************************************************)
(* A model of hyperschema's resolution and versioning engine (index.js):   *)
(* the Hyperschema constructor with its namespace registry and type        *)
(* resolver, the snapshot (toJSON), and the encode-descriptor derivation   *)
(* (ResolvedType.preprocess).                                              *)
(*                                                                         *)
(* JavaScript objects that the code shares by reference are heap cells:    *)
(*   types : the ResolvedType objects, addressed by their index;           *)
(*   heap  : the {first, latest} version-range objects, addressed by index. *)
(* A missing key of a raw declaration is written Absent (version,          *)
(* versions), "" (alias) or << >> (flagsPosition); a present flagsPosition *)
(* n is <<n>>.  An explicit `version: 0` is not among the inputs.          *)
(* The byte codecs (compact-encoding) and default values (lib/types.js)    *)
(* are external collaborators and are left out of the descriptors.         *)
(***************************************************************************)
EXTENDS Integers, Sequences, FiniteSets, TLC

VARIABLES
    types,                  \* heap of ResolvedType objects
    heap,                   \* heap of version-range objects {first, latest}
    roots,                  \* the Hyperschema instances constructed so far
    docs,                   \* the values toJSON() has returned so far
    thrown,                 \* message of the error the last call threw, "" if none
    latestAtConstruction    \* history: per root, fqn -> `latest` when the root was built

vars == <<types, heap, roots, docs, thrown, latestAtConstruction>>

-----------------------------------------------------------------------------
(* Bounds of the model *)

MaxRoots == 3
MaxDocs == 2
MaxFields == 5

-----------------------------------------------------------------------------
(* Raw declarations *)

Absent == 0
Undefined == 0

Field(name, type, required, array, version) ==
    [name |-> name, type |-> type, required |-> required, array |-> array,
     version |-> version]

Struct(namespace, name, fields, compact, flagsPosition) ==
    [name |-> name, namespace |-> namespace, alias |-> "", fields |-> fields,
     compact |-> compact, flagsPosition |-> flagsPosition, versions |-> Absent]

Alias(namespace, name, target) ==
    [name |-> name, namespace |-> namespace, alias |-> target, fields |-> << >>,
     compact |-> FALSE, flagsPosition |-> << >>, versions |-> Absent]

\* Builder.toJSON: the hand-authored input format
BuilderToJSON(builderTypes) == [version |-> 0, schema |-> builderTypes]

-----------------------------------------------------------------------------
(* Primitive singletons *)

SupportedTypes == <<"uint", "string", "bool">>

PrimitiveDescription(name) ==
    [name |-> name, namespace |-> "null", alias |-> "", fields |-> << >>,
     compact |-> FALSE, flagsPosition |-> << >>, versions |-> Absent]

\* ResolvedType constructor
NewResolvedType(description, fqn, versions, primitive, struct, fields, positionMap) ==
    [description   |-> description,
     name          |-> description.name,
     namespace     |-> description.namespace,
     fqn           |-> fqn,
     fields        |-> fields,
     positionMap   |-> positionMap,
     versions      |-> versions,
     compact       |-> description.compact,
     struct        |-> struct,
     primitive     |-> primitive,
     bool          |-> (description.name = "bool"),
     hasEncodables |-> FALSE,
     encodables    |-> << >>,
     optionals     |-> << >>,
     flagsPosition |-> IF Len(description.flagsPosition) = 1
                       THEN description.flagsPosition[1] ELSE -1]

\* static PrimitiveResolvedTypes: type i is SupportedTypes[i], its range is heap[i]
PrimitiveResolvedTypes ==
    [i \in 1..Len(SupportedTypes) |->
        NewResolvedType(PrimitiveDescription(SupportedTypes[i]), SupportedTypes[i],
                        i, TRUE, FALSE, << >>, << >>)]

PrimitiveVersions == [i \in 1..Len(SupportedTypes) |-> [first |-> 1, latest |-> 1]]

PrimitiveIndex(name) == CHOOSE i \in 1..Len(SupportedTypes) : SupportedTypes[i] = name

IsPrimitiveName(name) == \E i \in 1..Len(SupportedTypes) : SupportedTypes[i] = name

-----------------------------------------------------------------------------
(* Hyperschema helpers *)

GetFullyQualifiedName(description) ==
    "@" \o description.namespace \o "/" \o description.name

StripVersions(schema) ==
    [i \in 1..Len(schema) |->
        [schema[i] EXCEPT !.versions = Absent,
                          !.fields = [k \in 1..Len(schema[i].fields) |->
                                         [schema[i].fields[k] EXCEPT !.version = Absent]]]]

\* same-object: deep structural equality, key sets included
SameObject(a, b) == a = b

\* Hyperschema.resolve against a fullyQualifiedTypes map
Resolve(fullyQualifiedTypes, type) ==
    IF IsPrimitiveName(type) THEN PrimitiveIndex(type)
    ELSE IF type \in DOMAIN fullyQualifiedTypes THEN fullyQualifiedTypes[type]
    ELSE Undefined

MapSet(map, key, value) == (key :> value) @@ map

-----------------------------------------------------------------------------
(* ResolvedType.fromDescription *)

\* lines 108-124: the resolved field list; version by position in `previous`
ResolveFields(T, fullyQualifiedTypes, version, previous, description) ==
    [i \in 1..Len(description.fields) |->
        LET fieldDescription == description.fields[i]
            declared == IF fieldDescription.version # Absent
                        THEN fieldDescription.version ELSE version
            fieldVersion == IF previous # Undefined /\ i <= Len(T[previous].fields)
                            THEN T[previous].fields[i].version
                            ELSE declared
        IN [name     |-> fieldDescription.name,
            type     |-> Resolve(fullyQualifiedTypes, fieldDescription.type),
            required |-> fieldDescription.required,
            array    |-> fieldDescription.array,
            version  |-> fieldVersion]]

\* positionMap.set(field.name, position): the last field of a name wins
PositionMap(fields) ==
    [n \in {fields[i].name : i \in 1..Len(fields)} |->
        (CHOOSE i \in 1..Len(fields) :
            /\ fields[i].name = n
            /\ \A j \in 1..Len(fields) : fields[j].name = n => j <= i) - 1]

\* lines 126-133: raise `latest` to each newer field version, unless compact.
\* Returns the new `latest`, or -1 when the compact check throws.
RECURSIVE RaiseLatest(_, _, _, _)
RaiseLatest(fields, i, latest, compact) ==
    IF i > Len(fields) THEN latest
    ELSE IF fields[i].version <= latest THEN RaiseLatest(fields, i + 1, latest, compact)
    ELSE IF compact THEN -1
    ELSE RaiseLatest(fields, i + 1, fields[i].version, compact)

\* Hyperschema.getStructVersions: the previous type's own range object, or a
\* fresh one.  Returns [heap, ref].
GetStructVersions(T, H, R, prev, version, type) ==
    LET prevType == IF prev # 0 /\ type \in DOMAIN R[prev].fullyQualifiedTypes
                    THEN R[prev].fullyQualifiedTypes[type] ELSE Undefined
    IN IF prevType # Undefined
       THEN [heap |-> H, ref |-> T[prevType].versions]
       ELSE [heap |-> Append(H, [first |-> version, latest |-> version]),
             ref  |-> Len(H) + 1]

\* fromDescription on the construction state h of a root of the given version.
\* Returns [types, heap, type, error]; type is Undefined for an unresolved alias.
FromDescription(h, R, prev, version, fqn, description) ==
    IF description.alias # ""
    THEN [types |-> h.types, heap |-> h.heap,
          type |-> Resolve(h.fullyQualifiedTypes, description.alias), error |-> ""]
    ELSE
    LET previous == IF prev # 0 /\ fqn \in DOMAIN R[prev].fullyQualifiedTypes
                    THEN R[prev].fullyQualifiedTypes[fqn] ELSE Undefined
        sv == IF description.versions # Absent
              THEN [heap |-> h.heap, ref |-> description.versions]
              ELSE GetStructVersions(h.types, h.heap, R, prev, version, fqn)
        \* previous.fields is undefined when the previous fqn was an alias of a primitive
        typeError == /\ previous # Undefined
                     /\ h.types[previous].primitive
                     /\ Len(description.fields) > 0
        fields == ResolveFields(h.types, h.fullyQualifiedTypes, version, previous,
                                description)
        latest == RaiseLatest(fields, 1, sv.heap[sv.ref].latest, description.compact)
    IN IF typeError
       THEN [types |-> h.types, heap |-> sv.heap, type |-> Undefined,
             error |-> "TypeError"]
       ELSE IF latest = -1
       THEN [types |-> h.types, heap |-> sv.heap, type |-> Undefined,
             error |-> "Cannot change fields in a compact type"]
       ELSE [types |-> Append(h.types,
                         NewResolvedType(description, fqn, sv.ref, FALSE, TRUE,
                                         fields, PositionMap(fields))),
             heap  |-> [sv.heap EXCEPT ![sv.ref].latest = latest],
             type  |-> Len(h.types) + 1,
             error |-> ""]

-----------------------------------------------------------------------------
(* HyperschemaNamespace.register and the constructor's loop *)

\* One iteration of the constructor's loop (lines 183-199), register included.
RegisterStep(h, R, prev, version, typeDescription) ==
    LET namespace == typeDescription.namespace
        namespaces == IF namespace \in DOMAIN h.namespaces THEN h.namespaces
                      ELSE MapSet(h.namespaces, namespace, << >>)
        fqn == GetFullyQualifiedName(typeDescription)
    IN IF typeDescription.name \in DOMAIN namespaces[namespace]
       THEN [h EXCEPT !.error = "Duplicate type description"]
       ELSE
       LET f == FromDescription(h, R, prev, version, fqn, typeDescription)
       IN IF f.error # "" THEN [h EXCEPT !.heap = f.heap, !.error = f.error]
          \* type.versions of an undefined type (line 194)
          ELSE IF f.type = Undefined THEN [h EXCEPT !.error = "TypeError"]
          ELSE [types               |-> f.types,
                heap                |-> f.heap,
                namespaces          |-> [namespaces EXCEPT ![namespace] =
                                            MapSet(@, typeDescription.name, f.type)],
                fullyQualifiedTypes |-> MapSet(h.fullyQualifiedTypes, fqn, f.type),
                orderedTypes        |-> Append(h.orderedTypes,
                                          [description |-> typeDescription,
                                           versions    |-> f.types[f.type].versions,
                                           name        |-> fqn,
                                           type        |-> f.type]),
                error               |-> ""]

RECURSIVE RegisterAll(_, _, _, _, _, _)
RegisterAll(h, R, prev, version, schema, i) ==
    IF i > Len(schema) \/ h.error # "" THEN h
    ELSE RegisterAll(RegisterStep(h, R, prev, version, schema[i]),
                     R, prev, version, schema, i + 1)

\* lines 173-180: the overall version
ComputeVersion(R, description, prev) ==
    IF prev = 0 THEN 1
    ELSE IF SameObject(description.schema, StripVersions(R[prev].description.schema))
         THEN R[prev].version
         ELSE R[prev].version + 1

\* new Hyperschema(description, { previous }) on heaps T, H and roots R.
\* Returns the construction state with the version; error # "" when it threw.
NewHyperschema(T, H, R, description, prev) ==
    LET version == ComputeVersion(R, description, prev)
        h == RegisterAll([types |-> T, heap |-> H, namespaces |-> << >>,
                          fullyQualifiedTypes |-> << >>, orderedTypes |-> << >>,
                          error |-> ""],
                         R, prev, version, description.schema, 1)
    IN [h |-> h, version |-> version]

RootOf(n, description, prev) ==
    [description         |-> description,
     previous            |-> prev,
     version             |-> n.version,
     namespaces          |-> n.h.namespaces,
     fullyQualifiedTypes |-> n.h.fullyQualifiedTypes,
     orderedTypes        |-> n.h.orderedTypes]

\* history: the `latest` of every fqn of a root at the end of its construction
LatestOf(n) ==
    [fqn \in DOMAIN n.h.fullyQualifiedTypes |->
        n.h.heap[n.h.types[n.h.fullyQualifiedTypes[fqn]].versions].latest]

\* Hyperschema.toJSON
ToJSON(T, root) ==
    [version |-> root.version,
     schema  |-> [i \in 1..Len(root.orderedTypes) |->
        LET description == root.orderedTypes[i].description
            type == T[root.orderedTypes[i].type]
        IN IF description.alias # ""
           THEN [description EXCEPT !.versions = type.versions]
           ELSE [description EXCEPT
                    !.versions = type.versions,
                    !.fields = [k \in 1..Len(description.fields) |->
                                   [description.fields[k] EXCEPT
                                       !.version = type.fields[k].version]]]]]

-----------------------------------------------------------------------------
(* ResolvedType.preprocess *)

\* a slip in line 81: a product where the power is meant
NextFlagDoubled(optionals) == 2 * Len(optionals)

\* line 81: the bit the next optional field claims
NextFlag(optionals) == 2 ^ Len(optionals)

\* One iteration of the loop (lines 66-95) on type record t, field i (1-based;
\* the code's index is i - 1).
PreprocessStep(T, t, i) ==
    LET field == t.fields[i]
        framed == ~T[field.type].primitive /\ ~T[field.type].compact
        optional == ~field.required
        array == field.array
        flagsPosition == IF optional /\ t.flagsPosition = -1 THEN i - 1
                         ELSE t.flagsPosition
        flag == IF optional THEN NextFlag(t.optionals) ELSE 0
    IN [t EXCEPT
          !.flagsPosition = flagsPosition,
          !.optionals = IF optional
                        THEN Append(@, [name |-> field.name, version |-> field.version,
                                        flag |-> flag])
                        ELSE @,
          !.encodables = Append(@, [version  |-> field.version,
                                    fqn      |-> T[field.type].fqn,
                                    type     |-> field.type,
                                    name     |-> field.name,
                                    optional |-> optional,
                                    framed   |-> framed,
                                    array    |-> array,
                                    flag     |-> flag])]

\* The loop; it stops at a field whose type is undefined (field.type.primitive throws).
RECURSIVE PreprocessLoop(_, _, _)
PreprocessLoop(T, t, i) ==
    IF i > Len(t.fields) \/ t.fields[i].type = Undefined THEN t
    ELSE PreprocessLoop(T, PreprocessStep(T, t, i), i + 1)

\* preprocess() on a struct type; the memoized call (encodables set) returns at once.
Preprocess(id) ==
    /\ types[id].struct
    /\ ~types[id].hasEncodables
    /\ LET t == PreprocessLoop(types, [types[id] EXCEPT !.hasEncodables = TRUE], 1)
       IN /\ types' = [types EXCEPT ![id] = t]
          /\ thrown' = IF Len(t.encodables) < Len(t.fields) THEN "TypeError" ELSE ""
    /\ UNCHANGED <<heap, roots, docs, latestAtConstruction>>

-----------------------------------------------------------------------------
(* Inputs *)

a == Field("a", "uint", TRUE, FALSE, Absent)
b == Field("b", "string", FALSE, FALSE, Absent)
a2 == Field("a", "string", TRUE, FALSE, Absent)
ref == Field("id", "@y/Id", FALSE, TRUE, Absent)

\* The hand-authored schemas a caller passes to the constructor.
Schemas == {
    BuilderToJSON(<<Struct("x", "S", <<a>>, FALSE, << >>)>>),
    BuilderToJSON(<<Struct("x", "S", <<a, b>>, FALSE, << >>)>>),
    BuilderToJSON(<<Struct("x", "S", <<b, a>>, FALSE, << >>)>>),
    BuilderToJSON(<<Struct("x", "S", <<a>>, TRUE, << >>)>>),
    BuilderToJSON(<<Struct("x", "S", <<a2>>, TRUE, << >>)>>),
    BuilderToJSON(<<Struct("x", "S", <<a, b>>, TRUE, << >>)>>),
    BuilderToJSON(<<Struct("x", "Foo", <<a>>, FALSE, << >>),
                    Struct("y", "Foo", <<a>>, FALSE, << >>)>>),
    BuilderToJSON(<<Struct("x", "S", <<a, b>>, FALSE, << >>),
                    Struct("x", "S", <<a, b>>, FALSE, << >>)>>),
    BuilderToJSON(<<Struct("x", "S", <<a>>, FALSE, << >>),
                    Alias("y", "Id", "@x/S"),
                    Struct("y", "T", <<ref>>, FALSE, << >>)>>),
    BuilderToJSON(<<Alias("y", "Id", "@x/S"),
                    Struct("x", "S", <<a>>, FALSE, << >>)>>),
    BuilderToJSON(<<Alias("a", "b/c", "uint"),
                    Struct("a/b", "c", <<a>>, FALSE, << >>)>>)
}

-----------------------------------------------------------------------------
(* Actions *)

Init ==
    /\ types = PrimitiveResolvedTypes
    /\ heap = PrimitiveVersions
    /\ roots = << >>
    /\ docs = {}
    /\ thrown = ""
    /\ latestAtConstruction = << >>

\* new Hyperschema(description, { previous: roots[prev] }); prev = 0: no previous.
\* A throwing construction produces no root; what it wrote into objects that
\* existed before stays written.
Construct(description, prev) ==
    /\ Len(roots) < MaxRoots
    /\ LET n == NewHyperschema(types, heap, roots, description, prev)
       IN IF n.h.error = ""
          THEN /\ types' = n.h.types
               /\ heap' = n.h.heap
               /\ roots' = Append(roots, RootOf(n, description, prev))
               /\ latestAtConstruction' = Append(latestAtConstruction, LatestOf(n))
               /\ thrown' = ""
          ELSE /\ heap' = SubSeq(n.h.heap, 1, Len(heap))
               /\ thrown' = n.h.error
               /\ UNCHANGED <<types, roots, latestAtConstruction>>
    /\ UNCHANGED docs

\* roots[r].toJSON(); the caller keeps the returned value
Snapshot(r) ==
    /\ Cardinality(docs \cup {ToJSON(types, roots[r])}) <= MaxDocs
    /\ docs' = docs \cup {ToJSON(types, roots[r])}
    /\ thrown' = ""
    /\ UNCHANGED <<types, heap, roots, latestAtConstruction>>

ConstructAny ==
    \E description \in Schemas \cup docs, prev \in 0..Len(roots) :
        Construct(description, prev)

SnapshotAny == \E r \in 1..Len(roots) : Snapshot(r)

Next == ConstructAny \/ SnapshotAny

Spec == Init /\ [][Next]_vars

-----------------------------------------------------------------------------
(* The encode-descriptor derivation on its own: the state after constructing *)
(* a root from one drawn struct declaration, then preprocess() on its types. *)

FieldNames == <<"a", "b", "c", "d", "e", "f", "g">>

\* the type references the drawn fields cycle through
FieldTypes == <<"uint", "@x/N", "string", "@x/C">>

\* the declared flagsPosition: none, or an integer
FlagsPositions == {<< >>, <<-2>>, <<-1>>, <<0>>, <<1>>, <<3>>}

RequiredPatterns == UNION {[1..n -> BOOLEAN] : n \in 0..MaxFields}

DrawnFields(required, shift) ==
    [i \in 1..Len(required) |->
        LET type == FieldTypes[((i + shift) % Len(FieldTypes)) + 1]
        IN Field(FieldNames[i], type, required[i], type = "string", Absent)]

DrawnSchema(required, shift, flagsPosition) ==
    BuilderToJSON(<<Struct("x", "N", <<a>>, FALSE, << >>),
                    Struct("x", "C", <<a>>, TRUE, << >>),
                    Struct("x", "S", DrawnFields(required, shift), FALSE,
                           flagsPosition)>>)

PreInit ==
    \E required \in RequiredPatterns, shift \in 0..1,
       flagsPosition \in FlagsPositions :
        LET description == DrawnSchema(required, shift, flagsPosition)
            n == NewHyperschema(PrimitiveResolvedTypes, PrimitiveVersions, << >>,
                                description, 0)
        IN /\ types = n.h.types
           /\ heap = n.h.heap
           /\ roots = <<RootOf(n, description, 0)>>
           /\ latestAtConstruction = <<LatestOf(n)>>
           /\ docs = {}
           /\ thrown = ""

PreprocessAny == \E id \in 1..Len(types) : Preprocess(id)

PreNext == PreprocessAny

PreSpec == PreInit /\ [][PreNext]_vars

-----------------------------------------------------------------------------
(* Properties *)

Root(r) == roots[r]
RootIds == 1..Len(roots)

\* the version-range object a reference points to
Range(H, versions) == H[versions]

\* C1: the overall version of a root is 1 without a previous root; with one it
\* is previous.version when the two raw schemas are identical after stripping
\* the version annotations from BOTH, and previous.version + 1 otherwise.
C1_VersionFromStrippedSchemas ==
    \A r \in RootIds :
        IF Root(r).previous = 0 THEN Root(r).version = 1
        ELSE LET previous == Root(Root(r).previous)
             IN Root(r).version =
                   IF StripVersions(Root(r).description.schema)
                        = StripVersions(previous.description.schema)
                   THEN previous.version
                   ELSE previous.version + 1

\* C2: a root constructed from R.toJSON() with R as previous has R's version.
C2_RoundTripKeepsVersion ==
    \A r \in RootIds :
        (/\ Root(r).previous # 0
         /\ Root(r).description = ToJSON(types, Root(Root(r).previous)))
        => Root(r).version = Root(Root(r).previous).version

StripFields(fields) == [k \in 1..Len(fields) |-> [fields[k] EXCEPT !.version = Absent]]

\* C3: no root exists whose declaration of a struct that is compact in its
\* previous root adds a field or changes one of the existing fields.
C3_FrozenStructRejectsChange ==
    \A r \in RootIds :
        Root(r).previous # 0 =>
        \A i \in 1..Len(Root(r).description.schema) :
            LET d == Root(r).description.schema[i]
                fqn == GetFullyQualifiedName(d)
                previous == Root(Root(r).previous)
            IN (/\ d.alias = ""
                /\ d.compact
                /\ fqn \in DOMAIN previous.fullyQualifiedTypes
                /\ types[previous.fullyQualifiedTypes[fqn]].struct
                /\ types[previous.fullyQualifiedTypes[fqn]].compact)
               => LET old == StripFields(
                                types[previous.fullyQualifiedTypes[fqn]].description.fields)
                      new == StripFields(d.fields)
                  IN /\ Len(new) <= Len(old)
                     /\ \A k \in 1..Len(new) : new[k] = old[k]

\* the struct fqns two roots share
SharedStructs(earlier, later) ==
    {fqn \in DOMAIN earlier.fullyQualifiedTypes \cap DOMAIN later.fullyQualifiedTypes :
        /\ types[earlier.fullyQualifiedTypes[fqn]].struct
        /\ types[later.fullyQualifiedTypes[fqn]].struct}

\* C4: a field, identified by its name, that a struct has in a root and in that
\* root's previous root has in the later root a version >= its earlier version.
C4_FieldVersionMonotoneByName ==
    \A r \in RootIds :
        Root(r).previous # 0 =>
        \A fqn \in SharedStructs(Root(Root(r).previous), Root(r)) :
            LET old == types[Root(Root(r).previous).fullyQualifiedTypes[fqn]].fields
                new == types[Root(r).fullyQualifiedTypes[fqn]].fields
            IN \A i \in 1..Len(old), j \in 1..Len(new) :
                  old[i].name = new[j].name => new[j].version >= old[i].version

\* C6: in a constructed root no two declarations share namespace and name, two
\* structs of one name in different namespaces are distinct types, each fqn of
\* the declaration-order list occurs once, and the fqn map has one entry per
\* declaration.
C6_FqnUnique ==
    \A r \in RootIds :
        LET ordered == Root(r).orderedTypes
        IN /\ \A i, j \in 1..Len(ordered) :
                 i # j =>
                 /\ ~(/\ ordered[i].description.name = ordered[j].description.name
                      /\ ordered[i].description.namespace
                            = ordered[j].description.namespace)
                 /\ (ordered[i].description.alias = "" /\ ordered[j].description.alias = "")
                       => ordered[i].type # ordered[j].type
                 /\ ordered[i].name # ordered[j].name
           /\ Cardinality(DOMAIN Root(r).fullyQualifiedTypes)
                 = Len(Root(r).description.schema)

\* C7: in a constructed root the fqn of every alias declaration resolves to the
\* very object its target resolves to, and never to a type of the alias's own fqn.
C7_AliasIdentity ==
    \A r \in RootIds :
        \A i \in 1..Len(Root(r).description.schema) :
            LET d == Root(r).description.schema[i]
                fqn == GetFullyQualifiedName(d)
                map == Root(r).fullyQualifiedTypes
            IN d.alias # "" =>
                 /\ Resolve(map, fqn) = Resolve(map, d.alias)
                 /\ types[Resolve(map, fqn)].fqn # fqn

\* the resolved field versions and version ranges of a root, in declaration order
History(T, H, root) ==
    [i \in 1..Len(root.orderedTypes) |->
        LET type == T[root.orderedTypes[i].type]
        IN [fields   |-> [k \in 1..Len(type.fields) |-> type.fields[k].version],
            versions |-> Range(H, type.versions)]]

\* C8: a root rebuilt from R.toJSON() alone has R's overall version, field
\* versions and version ranges.
C8_SnapshotKeepsHistory ==
    \A r, s \in RootIds :
        (/\ Root(s).previous = 0
         /\ Root(s).description = ToJSON(types, Root(r)))
        => /\ Root(s).version = Root(r).version
           /\ History(types, heap, Root(s)) = History(types, heap, Root(r))

\* toJSON() with every `versions` reference replaced by the object's content
ToJSONValue(T, H, root) ==
    LET json == ToJSON(T, root)
    IN [version |-> json.version,
        schema  |-> [i \in 1..Len(json.schema) |->
                        [json.schema[i] EXCEPT !.versions = Range(H, @)]]]

\* C9: a construction that links previous root P leaves P.toJSON() as it was.
C9_PreviousRootNotMutated ==
    [][(Len(roots') > Len(roots) /\ roots'[Len(roots')].previous # 0)
        => LET p == roots'[Len(roots')].previous
           IN ToJSONValue(types', heap', roots'[p]) = ToJSONValue(types, heap, roots[p])]_vars

\* C10: for a struct fqn of a root and of its previous root, the later `latest`
\* is >= the earlier one as it was at the earlier root's construction, greater
\* only if a field of the struct has a version above it; and every struct's
\* `latest` is >= each of its fields' versions.
C10_LatestAcrossRevisions ==
    /\ \A r \in RootIds :
          Root(r).previous # 0 =>
          \A fqn \in SharedStructs(Root(Root(r).previous), Root(r)) :
              LET earlier == latestAtConstruction[Root(r).previous][fqn]
                  later == latestAtConstruction[r][fqn]
                  fields == types[Root(r).fullyQualifiedTypes[fqn]].fields
              IN /\ later >= earlier
                 /\ later > earlier => \E k \in 1..Len(fields) : fields[k].version > earlier
    /\ \A r \in RootIds :
          \A i \in 1..Len(Root(r).orderedTypes) :
              LET type == types[Root(r).orderedTypes[i].type]
              IN type.struct =>
                   \A k \in 1..Len(type.fields) :
                       Range(heap, type.versions).latest >= type.fields[k].version

\* the number of optional fields before field i, and the code's index of the
\* first optional field (-1 when every field is required)
OptionalsBefore(fields, i) == Cardinality({k \in 1..(i - 1) : ~fields[k].required})

FirstOptional(fields) ==
    IF \A k \in 1..Len(fields) : fields[k].required THEN -1
    ELSE (CHOOSE i \in 1..Len(fields) :
             ~fields[i].required /\ OptionalsBefore(fields, i) = 0) - 1

Preprocessed(id) ==
    /\ types[id].struct
    /\ types[id].hasEncodables
    /\ Len(types[id].encodables) = Len(types[id].fields)

FlagsAssigned(id) ==
    \A i \in 1..Len(types[id].fields) :
        types[id].encodables[i].flag =
            IF types[id].fields[i].required THEN 0
            ELSE 2 ^ OptionalsBefore(types[id].fields, i)

\* C5 as stated: after preprocess() the k-th optional field has flag 2^k, a
\* required field has flag 0, and flagsPosition is the declared integer if the
\* declaration gave one, else the index of the first optional field, else -1.
C5_FlagsAndAnyDeclaredPosition ==
    \A id \in 1..Len(types) :
        Preprocessed(id) =>
            /\ FlagsAssigned(id)
            /\ types[id].flagsPosition =
                  IF Len(types[id].description.flagsPosition) = 1
                  THEN types[id].description.flagsPosition[1]
                  ELSE FirstOptional(types[id].fields)

\* C5 amended: as above, but only a declared integer other than -1 is kept; a
\* declared -1 is treated as no declaration.
C5_FlagsAndDeclaredPosition ==
    \A id \in 1..Len(types) :
        Preprocessed(id) =>
            /\ FlagsAssigned(id)
            /\ types[id].flagsPosition =
                  IF /\ Len(types[id].description.flagsPosition) = 1
                     /\ types[id].description.flagsPosition[1] # -1
                  THEN types[id].description.flagsPosition[1]
                  ELSE FirstOptional(types[id].fields)

\* C5 witness: [a required, b optional, c optional, d required, e optional]
\* preprocessed to b = 1, c = 2, e = 4 and flagsPosition 1.
C5_Witness ==
    \E id \in 1..Len(types) :
        /\ Preprocessed(id)
        /\ [k \in 1..Len(types[id].fields) |-> types[id].fields[k].required]
              = <<TRUE, FALSE, FALSE, TRUE, FALSE>>
        /\ [k \in 1..Len(types[id].fields) |-> types[id].encodables[k].flag]
              = <<0, 1, 2, 0, 4>>
        /\ types[id].flagsPosition = 1

====
